---- MODULE Spec2Model ----
(***************************************************************************)
(* Model of the Google Drive -> Instill Catalog synchroniser (main.py,     *)
(* helpers.py, config.py).  The persistent state is the checkpoint file    *)
(* and the three ledger files; one run of the program is main() with its   *)
(* per-file loop, its per-file exception handler and its run-level         *)
(* exception handler that re-invokes main().  The collaborators (Drive     *)
(* API, Catalog HTTP API, wall clock) are the environment: every reply     *)
(* they can give is a nondeterministic choice.  Local file-system calls    *)
(* on the program's own files are taken to succeed.                        *)
(***************************************************************************)
EXTENDS Integers, Sequences, FiniteSets, TLC

VARIABLES
    pc,                  \* position of the program
    timeFile,            \* content of modified_time.txt, or Absent
    uploaded,            \* "data" list of uploaded_files.json
    failed,              \* "data" list of failure_files.json
    unsupported,         \* "data" list of unsupported_type_files.json
    localFiles,          \* local transient files that exist
    query_modified_time, \* main(): local
    items,               \* main(): local, the listing
    idx,                 \* main(): position of the for loop in items
    file_name,           \* main(): local, Unbound until line 80 ran in this frame
    local_file_name,     \* main(): local, Unbound until line 81 ran in this frame
    request,             \* main(): local, the media request built at 90/93
    file_type,           \* main(): local
    file_uid,            \* main(): local
    restarts,            \* re-invocations of main() in this run (line 142)
    trace,               \* history: the steps of the current/last iteration
    outcome,             \* history: how the last iteration ended
    runEvents,           \* history: collaborator calls since main() was entered
    ledger0,             \* history: the three ledgers when main() was entered
    allUploaded,         \* history: every listed id was in Uploaded at the listing
    runAbsent,           \* history: the checkpoint was absent when the run began
    handled,             \* history: iterations begun per id in this run
                         \* (0, 1, 2 for two or more)
    listed,              \* history: ids listed in this run
    seen,                \* history: the current/last iteration's id, the
                         \* collaborators' replies, the ledgers at its start
    accepted,            \* history: ids for which an upload returned a
                         \* file uid to the program, in any run so far
    hLedger,             \* helper harness: a ledger file's "data" list
    hInit,               \* helper harness: that list before the calls
    hLog,                \* helper harness: the ids passed to append_file_id
    hMime,               \* helper harness: argument of get_file_type
    hType                \* helper harness: its result

vars == <<pc, timeFile, uploaded, failed, unsupported, localFiles,
          query_modified_time, items, idx, file_name, local_file_name,
          request, file_type, file_uid, restarts, trace, outcome, runEvents,
          ledger0, allUploaded, runAbsent, handled, listed, seen, accepted,
          hLedger, hInit, hLog, hMime, hType>>

progVars == <<pc, timeFile, uploaded, failed, unsupported, localFiles,
              query_modified_time, items, idx, file_name, local_file_name,
              request, file_type, file_uid, restarts, trace, outcome,
              runEvents, ledger0, allUploaded, runAbsent, handled, listed,
              seen, accepted>>

helperVars == <<hLedger, hInit, hLog, hMime, hType>>

-----------------------------------------------------------------------------
(* Bounds of the model *)

\* re-invocations of main() followed within one run
MaxRestarts == 1
\* calls of append_file_id followed by the helper harness
MaxCalls == 3

-----------------------------------------------------------------------------
(* Values *)

Ids == {"f1", "f2"}
Names == {"report"}
Times == {"t1", "t2"}
Uids == {"u1", "u2"}

Absent == "ABSENT"
None == "NONE"
Unbound == "UNBOUND"
Raise == "RAISE"

FOLDER == "application/vnd.google-apps.folder"
GDOC == "application/vnd.google-apps.document"
GSHEET == "application/vnd.google-apps.spreadsheet"

\* MIME types the Drive metadata call answers with in the run model
RunMimes == {"application/pdf", "text/plain", "application/zip", FOLDER, GDOC}

Range(s) == {s[i] : i \in DOMAIN s}

NoDup(s) == \A i, j \in DOMAIN s : s[i] = s[j] => i = j

\* sequences over S of length at most n without repetition
DistinctSeqs(S, n) ==
    UNION {{s \in [1..k -> S] : NoDup(s)} : k \in 0..n}

-----------------------------------------------------------------------------
(* helpers.py *)

\* what requests/raise_for_status/json make of an HTTP exchange:
\* status "ok" (2xx), "http_error" (4xx/5xx) or "no_response" (the request
\* itself raises); body kinds of the upload endpoint and of the processing
\* endpoint, as far as main() tells them apart
UploadBodyKinds == {"uid", "no_file", "no_uid", "file_not_object", "not_json"}
ProcessBodyKinds == {"status", "no_files", "no_status", "empty_files", "not_json"}

Body(k, v) == [kind |-> k, val |-> v]

UploadBodies ==
    {Body("uid", u) : u \in Uids \cup {""}}
        \cup {Body(k, None) : k \in UploadBodyKinds \ {"uid"}}

ProcessBodies ==
    {Body("status", s) : s \in {"FILE_PROCESS_STATUS_WAITING", ""}}
        \cup {Body(k, None) : k \in ProcessBodyKinds \ {"status"}}

Responses(bodies) ==
    {[status |-> st, body |-> b] : st \in {"ok", "http_error"}, b \in bodies}
        \cup {[status |-> "no_response", body |-> Body("not_json", None)]}

Raised == Body(Raise, None)

\* call_catalog_api: the JSON body, or an exception from requests.request,
\* from raise_for_status or from response.json()
call_catalog_api(resp) ==
    IF resp.status = "no_response" THEN Raised
    ELSE IF resp.status = "http_error" THEN Raised
    ELSE IF resp.body.kind = "not_json" THEN Raised
    ELSE resp.body

\* script.py, call_catalog_api: the JSON body whatever the HTTP status, or an
\* exception from requests.post or from response.json()
script_call_catalog_api(resp) ==
    IF resp.status = "no_response" THEN Raised
    ELSE IF resp.body.kind = "not_json" THEN Raised
    ELSE resp.body

mime_type_to_file_type ==
    ("application/pdf" :> "FILE_TYPE_PDF")
    @@ ("text/plain" :> "FILE_TYPE_TEXT")
    @@ ("text/markdown" :> "FILE_TYPE_MARKDOWN")
    @@ ("image/png" :> "FILE_TYPE_PNG")
    @@ ("image/jpeg" :> "FILE_TYPE_JPEG")
    @@ ("image/jpg" :> "FILE_TYPE_JPG")
    @@ ("text/html" :> "FILE_TYPE_HTML")
    @@ ("application/vnd.openxmlformats-officedocument.wordprocessingml.document"
            :> "FILE_TYPE_DOCX")
    @@ ("application/msword" :> "FILE_TYPE_DOC")
    @@ ("application/vnd.ms-powerpoint" :> "FILE_TYPE_PPT")
    @@ ("application/vnd.openxmlformats-officedocument.presentationml.presentation"
            :> "FILE_TYPE_PPTX")
    @@ ("application/vnd.ms-excel" :> "FILE_TYPE_XLS")
    @@ ("application/vnd.openxmlformats-officedocument.spreadsheetml.sheet"
            :> "FILE_TYPE_XLSX")

\* a lookup that falls back to the first catalog type instead of 'none'
get_file_type_default_pdf(mime_type) ==
    IF mime_type \in DOMAIN mime_type_to_file_type
    THEN mime_type_to_file_type[mime_type]
    ELSE "FILE_TYPE_PDF"

get_file_type(mime_type) ==
    IF mime_type \in DOMAIN mime_type_to_file_type
    THEN mime_type_to_file_type[mime_type]
    ELSE "none"

\* datetime.now() as its millisecond stamp and the microsecond digits below it
WallClock == {[millis |-> t, micros |-> u] : t \in Times, u \in {"000", "417"}}

\* strftime('...%f')[:-3] + 'Z': the last three microsecond digits are cut
get_current_time_formatted(now) == now.millis

\* a save that never writes
save_modified_time_skipped(content, modified_time) == content

\* the new content of modified_time.txt
save_modified_time_to_file(content, modified_time) == modified_time

\* a read that never finds the stored time
read_modified_time_lost(content) == None

\* the stripped content, or None when the file does not exist
read_modified_time_from_file(content) ==
    IF content = Absent THEN None ELSE content

\* a truth test that takes every value for true
FalsyNever(v) == FALSE

\* "if not query_modified_time", "if not file_uid", "if not process_status":
\* None and the empty string are falsy
Falsy(v) == v = None \/ v = ""

\* the "data" list of a ledger file ([] when the file does not exist)
load_uploaded_files(data) == data

save_uploaded_files(uploaded_files, data) == uploaded_files

\* an append without the membership test
append_file_id_always(file_id, data) ==
    save_uploaded_files(Append(load_uploaded_files(data), file_id), data)

\* an insert at the head of the list
append_file_id_front(file_id, data) ==
    LET uploaded_files == load_uploaded_files(data)
    IN  save_uploaded_files(
            IF file_id \notin Range(uploaded_files)
            THEN <<file_id>> \o uploaded_files
            ELSE uploaded_files,
            data)

append_file_id(file_id, data) ==
    LET uploaded_files == load_uploaded_files(data)
    IN  save_uploaded_files(
            IF file_id \notin Range(uploaded_files)
            THEN Append(uploaded_files, file_id)
            ELSE uploaded_files,
            data)

-----------------------------------------------------------------------------
(* main.py: the pieces of main() *)

\* a membership test that never finds the id
AlreadyUploadedNever(file_id, data) == FALSE

\* line 74
AlreadyUploaded(file_id, data) == file_id \in Range(load_uploaded_files(data))

\* mime_type.startswith('application/vnd.google-apps.'), over the MIME types
\* of the model
StartsWithGoogleApps(mime_type) == mime_type \in {FOLDER, GDOC, GSHEET}

\* a folder test that never matches
IsFolderNever(mime_type) == FALSE

\* line 83
IsFolder(mime_type) == mime_type = FOLDER

NoLocal == [name |-> Unbound, suffix |-> ""]

\* line 81
LocalFileName(name, mime_type) ==
    IF StartsWithGoogleApps(mime_type)
    THEN [name |-> name, suffix |-> ".pdf"]
    ELSE [name |-> name, suffix |-> ""]

\* lines 87-93: the MIME type handed to the classifier and the media request
EffectiveMime(mime_type) ==
    IF StartsWithGoogleApps(mime_type) THEN "application/pdf" ELSE mime_type

\* a direct download whatever the MIME type
MediaRequestDirect(mime_type) == "get_media"

MediaRequest(mime_type) ==
    IF StartsWithGoogleApps(mime_type) THEN "export_media" ELSE "get_media"

\* a test against None instead of the string 'none'
IsUnsupportedNone(ftype) == ftype = None

\* line 96
IsUnsupported(ftype) == ftype = "none"

\* a file uid that is not taken from the reply
FileUidOfStale(body) == "u1"

\* line 111: uploaded_file.get("file", {}).get("fileUid", None)
FileUidOf(body) ==
    CASE body.kind = "uid" -> body.val
      [] body.kind \in {"no_file", "no_uid"} -> None
      [] OTHER -> Raise

\* line 121: process_data.get("files", [{}])[0].get("processStatus", None)
ProcessStatusOf(body) ==
    CASE body.kind = "status" -> body.val
      [] body.kind \in {"no_files", "no_status"} -> None
      [] OTHER -> Raise

os_remove(files, name) == files \ {name}

\* a handler that leaves the file behind
HandlerCleanupNone(files, name) == files

\* lines 135-136
HandlerCleanup(files, name) ==
    IF name \in files THEN os_remove(files, name) ELSE files

-----------------------------------------------------------------------------
(* main.py: main() as a state machine *)

Ledgers == <<uploaded, failed, unsupported>>

ZeroHandled == [i \in Ids |-> 0]

NoReply == [status |-> "none", body |-> Body("none", None)]

NoSeen == [id |-> None, mime |-> None, up |-> NoReply, tr |-> NoReply,
           sent |-> None, ledgers |-> <<<<>>, <<>>, <<>>>>]

Init ==
    /\ pc = "idle"
    /\ timeFile = Absent
    /\ uploaded = <<>>
    /\ failed = <<>>
    /\ unsupported = <<>>
    /\ localFiles = {}
    /\ query_modified_time = Unbound
    /\ items = <<>>
    /\ idx = 1
    /\ file_name = Unbound
    /\ local_file_name = NoLocal
    /\ request = Unbound
    /\ file_type = Unbound
    /\ file_uid = Unbound
    /\ restarts = 0
    /\ trace = <<>>
    /\ outcome = "none"
    /\ runEvents = {}
    /\ ledger0 = Ledgers
    /\ allUploaded = FALSE
    /\ runAbsent = FALSE
    /\ handled = ZeroHandled
    /\ listed = {}
    /\ seen = NoSeen
    /\ accepted = {}
    /\ hLedger = <<>>
    /\ hInit = <<>>
    /\ hLog = <<>>
    /\ hMime = "application/pdf"
    /\ hType = Unbound

\* a fresh frame of main(): every local is unbound
FreshFrame ==
    /\ query_modified_time' = Unbound
    /\ items' = <<>>
    /\ idx' = 1
    /\ file_name' = Unbound
    /\ local_file_name' = NoLocal
    /\ request' = Unbound
    /\ file_type' = Unbound
    /\ file_uid' = Unbound
    /\ runEvents' = {}
    /\ ledger0' = Ledgers
    /\ allUploaded' = FALSE
    /\ seen' = NoSeen

\* lines 145-146: the program is started and calls main()
RunProgram ==
    /\ pc = "idle"
    /\ pc' = "main"
    /\ FreshFrame
    /\ restarts' = 0
    /\ trace' = <<>>
    /\ outcome' = "none"
    /\ runAbsent' = (timeFile = Absent)
    /\ handled' = ZeroHandled
    /\ listed' = {}
    /\ UNCHANGED <<timeFile, uploaded, failed, unsupported, localFiles>>
    /\ UNCHANGED <<helperVars, accepted>>

\* lines 139-142: the run-level handler logs and calls main() again; when the
\* inner call returns, the outer one returns too
\* lines 139-142 without the call at line 142: the run-level handler logs
\* and main() returns
RetryMainGivesUp ==
    /\ restarts < MaxRestarts
    /\ pc' = "returned"
    /\ FreshFrame
    /\ restarts' = restarts + 1
    /\ UNCHANGED <<timeFile, uploaded, failed, unsupported>>
    /\ UNCHANGED <<runAbsent, handled, listed>>
    /\ UNCHANGED <<helperVars, accepted>>

RetryMain ==
    /\ restarts < MaxRestarts
    /\ pc' = "main"
    /\ FreshFrame
    /\ restarts' = restarts + 1
    /\ UNCHANGED <<timeFile, uploaded, failed, unsupported>>
    /\ UNCHANGED <<runAbsent, handled, listed>>
    /\ UNCHANGED <<helperVars, accepted>>

\* lines 46-52: build the service, read the checkpoint, create it when falsy
ResolveCheckpoint ==
    /\ pc = "main"
    /\ \/ /\ RetryMain
          /\ UNCHANGED <<localFiles, trace, outcome>>
       \/ /\ \E now \in WallClock :
                LET read == read_modified_time_from_file(timeFile)
                    stamp == get_current_time_formatted(now)
                IN  IF Falsy(read)
                    THEN /\ query_modified_time' = stamp
                         /\ timeFile' = save_modified_time_to_file(timeFile, stamp)
                    ELSE /\ query_modified_time' = read
                         /\ timeFile' = timeFile
          /\ pc' = "list"
          /\ UNCHANGED <<uploaded, failed, unsupported, localFiles, items, idx,
                         file_name, local_file_name, request, file_type,
                         file_uid, restarts, trace, outcome, runEvents,
                         ledger0, allUploaded, runAbsent, handled, listed,
                         seen>>
          /\ UNCHANGED <<helperVars, accepted>>

\* lines 54-66: the listing call, which answers with any sequence of distinct
\* ids; an empty listing returns from main()
ListFiles ==
    /\ pc = "list"
    /\ \/ /\ RetryMain
          /\ UNCHANGED <<localFiles, trace, outcome>>
       \/ /\ \E l \in DistinctSeqs(Ids, Cardinality(Ids)) :
                /\ items' = l
                /\ allUploaded' = (Range(l) \subseteq Range(ledger0[1]))
                /\ listed' = listed \cup Range(l)
                /\ pc' = IF l = <<>> THEN "returned" ELSE "loop"
          /\ idx' = 1
          /\ UNCHANGED <<timeFile, uploaded, failed, unsupported, localFiles,
                         query_modified_time, file_name, local_file_name,
                         request, file_type, file_uid, restarts, trace,
                         outcome, runEvents, ledger0, runAbsent, handled,
                         seen>>
          /\ UNCHANGED <<helperVars, accepted>>

\* line 68: the for loop is exhausted and main() returns; the record of the
\* last iteration ends with the loop
LoopExit ==
    /\ pc = "loop"
    /\ idx > Len(items)
    /\ pc' = "returned"
    /\ trace' = <<>>
    /\ seen' = NoSeen
    /\ UNCHANGED <<timeFile, uploaded, failed, unsupported, localFiles,
                   query_modified_time, items, idx, file_name, local_file_name,
                   request, file_type, file_uid, restarts, outcome,
                   runEvents, ledger0, allUploaded, runAbsent, handled, listed>>
    /\ UNCHANGED <<helperVars, accepted>>

\* lines 68-76: the next descriptor; skipped when its id is in Uploaded
BeginIteration ==
    /\ pc = "loop"
    /\ idx <= Len(items)
    /\ LET file_id == items[idx]
       IN  /\ handled' = [handled EXCEPT
                             ![file_id] = IF @ < 2 THEN @ + 1 ELSE @]
           /\ trace' = <<>>
           /\ seen' = [NoSeen EXCEPT !.id = file_id, !.ledgers = Ledgers]
           /\ IF AlreadyUploaded(file_id, uploaded)
              THEN /\ outcome' = "Skipped-Already-Uploaded"
                   /\ idx' = idx + 1
                   /\ pc' = "loop"
              ELSE /\ outcome' = "pending"
                   /\ idx' = idx
                   /\ pc' = "meta"
    /\ UNCHANGED <<timeFile, uploaded, failed, unsupported, localFiles,
                   query_modified_time, items, file_name, local_file_name,
                   request, file_type, file_uid, restarts, runEvents, ledger0,
                   allUploaded, runAbsent, listed>>
    /\ UNCHANGED <<helperVars, accepted>>

\* request, file_type and file_uid are bound again before every use: when an
\* iteration ends their values are dead, and the model drops them
DeadLocals ==
    /\ request' = Unbound
    /\ file_type' = Unbound
    /\ file_uid' = Unbound

\* lines 132-137 (and 139-142 when the handler itself raises): file_name is
\* read at line 133 and local_file_name at line 135; in a frame that has not
\* reached line 80 they are unbound and the NameError leaves the loop.
\* files: the local files when the exception is raised; tr: the steps so
\* far; evs: the collaborator calls so far; sn: the replies so far
ExceptHandler(files, tr, evs, sn) ==
    /\ outcome' = "Failed-Exception"
    /\ IF file_name = Unbound
       THEN /\ RetryMain
            /\ localFiles' = files
            /\ trace' = Append(tr, "handler_raises")
       ELSE /\ localFiles' = HandlerCleanup(files, local_file_name)
            /\ trace' = IF local_file_name \in files
                        THEN Append(tr, "remove") ELSE tr
            /\ runEvents' = evs
            /\ seen' = sn
            /\ idx' = idx + 1
            /\ pc' = "loop"
            /\ DeadLocals
            /\ UNCHANGED <<timeFile, uploaded, failed, unsupported,
                           query_modified_time, items, file_name,
                           local_file_name, restarts, ledger0, allUploaded,
                           runAbsent, handled, listed>>
            /\ UNCHANGED <<helperVars, accepted>>

\* lines 78-99: the metadata call, the folder test, the choice of the media
\* request, the classification
FetchMetadata ==
    /\ pc = "meta"
    /\ \/ ExceptHandler(localFiles, Append(trace, "meta"),
                        runEvents \cup {"meta"}, seen)
       \/ /\ \E mime_type \in RunMimes, name \in Names :
                LET ftype == get_file_type(EffectiveMime(mime_type))
                IN  /\ file_name' = name
                    /\ local_file_name' = LocalFileName(name, mime_type)
                    /\ seen' = [seen EXCEPT !.mime = mime_type]
                    /\ IF IsFolder(mime_type)
                       THEN /\ outcome' = "Skipped-Folder"
                            /\ trace' = Append(trace, "meta")
                            /\ idx' = idx + 1
                            /\ pc' = "loop"
                            /\ UNCHANGED <<request, file_type, unsupported>>
                       ELSE /\ IF IsUnsupported(ftype)
                               THEN /\ request' = Unbound
                                    /\ file_type' = Unbound
                                    /\ unsupported' =
                                        append_file_id(items[idx], unsupported)
                                    /\ outcome' = "Skipped-Unsupported-Type"
                                    /\ trace' = trace \o
                                        <<"meta", "append_unsupported">>
                                    /\ idx' = idx + 1
                                    /\ pc' = "loop"
                               ELSE /\ request' = MediaRequest(mime_type)
                                    /\ file_type' = ftype
                                    /\ unsupported' = unsupported
                                    /\ outcome' = "pending"
                                    /\ trace' = Append(trace, "meta")
                                    /\ idx' = idx
                                    /\ pc' = "download"
          /\ runEvents' = runEvents \cup {"meta"}
          /\ UNCHANGED <<timeFile, uploaded, failed, localFiles,
                         query_modified_time, items, file_uid, restarts,
                         ledger0, allUploaded, runAbsent, handled, listed>>
          /\ UNCHANGED <<helperVars, accepted>>

\* lines 101-106: the local file is created and the content streamed into it;
\* an exception leaves the file behind or not (created) for the handler
Download ==
    /\ pc = "download"
    /\ \/ \E created \in BOOLEAN :
            ExceptHandler(
                IF created THEN localFiles \cup {local_file_name} ELSE localFiles,
                IF created THEN trace \o <<"create", request>>
                           ELSE Append(trace, "create_raises"),
                IF created THEN runEvents \cup {"download"} ELSE runEvents,
                seen)
       \/ /\ localFiles' = localFiles \cup {local_file_name}
          /\ trace' = trace \o <<"create", request>>
          /\ runEvents' = runEvents \cup {"download"}
          /\ pc' = "upload"
          /\ UNCHANGED <<timeFile, uploaded, failed, unsupported,
                         query_modified_time, items, idx, file_name,
                         local_file_name, request, file_type, file_uid,
                         restarts, outcome, ledger0, allUploaded, runAbsent,
                         handled, listed, seen>>
          /\ UNCHANGED <<helperVars, accepted>>

\* lines 108-118: encode, call the upload endpoint, take the file uid
Upload ==
    /\ pc = "upload"
    /\ \E resp \in Responses(UploadBodies) :
        LET uploaded_file == call_catalog_api(resp)
            uid == IF uploaded_file = Raised THEN Raise
                   ELSE FileUidOf(uploaded_file)
            tr == Append(trace, "upload")
            evs == runEvents \cup {"upload"}
            sn == [seen EXCEPT !.up = resp]
        IN  IF uid = Raise
            THEN ExceptHandler(localFiles, tr, evs, sn)
            ELSE /\ seen' = sn
                 /\ IF Falsy(uid)
                    THEN /\ failed' = append_file_id(items[idx], failed)
                         /\ localFiles' = os_remove(localFiles, local_file_name)
                         /\ trace' = tr \o <<"append_failed", "remove">>
                         /\ outcome' = "Failed-Upload"
                         /\ idx' = idx + 1
                         /\ pc' = "loop"
                         /\ DeadLocals
                    ELSE /\ failed' = failed
                         /\ localFiles' = localFiles
                         /\ trace' = tr
                         /\ outcome' = "pending"
                         /\ idx' = idx
                         /\ pc' = "trigger"
                         /\ file_uid' = uid
                         /\ UNCHANGED <<request, file_type>>
                 /\ runEvents' = evs
                 /\ UNCHANGED <<timeFile, uploaded, unsupported,
                                query_modified_time, items, file_name,
                                local_file_name, restarts, ledger0,
                                allUploaded, runAbsent, handled, listed>>
                 /\ UNCHANGED <<helperVars, accepted>>

\* lines 120-130: call the processing endpoint, take the process status,
\* record the result
Trigger ==
    /\ pc = "trigger"
    /\ \E resp \in Responses(ProcessBodies) :
        LET process_data == call_catalog_api(resp)
            process_status == IF process_data = Raised THEN Raise
                              ELSE ProcessStatusOf(process_data)
            tr == Append(trace, "trigger")
            evs == runEvents \cup {"trigger"}
            sn == [seen EXCEPT !.tr = resp, !.sent = file_uid]
        IN  IF process_status = Raise
            THEN ExceptHandler(localFiles, tr, evs, sn)
            ELSE /\ seen' = sn
                 /\ IF Falsy(process_status)
                    THEN /\ failed' = append_file_id(items[idx], failed)
                         /\ uploaded' = uploaded
                         /\ trace' = tr \o <<"append_failed", "remove">>
                         /\ outcome' = "Failed-Processing"
                    ELSE /\ failed' = failed
                         /\ uploaded' = append_file_id(items[idx], uploaded)
                         /\ trace' = tr \o <<"remove", "append_uploaded">>
                         /\ outcome' = "Uploaded"
                 /\ localFiles' = os_remove(localFiles, local_file_name)
                 /\ idx' = idx + 1
                 /\ pc' = "loop"
                 /\ runEvents' = evs
                 /\ DeadLocals
                 /\ UNCHANGED <<timeFile, unsupported, query_modified_time,
                                items, file_name, local_file_name, restarts,
                                ledger0, allUploaded, runAbsent, handled,
                                listed>>
                 /\ UNCHANGED <<helperVars, accepted>>

\* lines 147-150: a new time is computed and, the save being commented out,
\* dropped; the program ends and the locals of its frames are gone
MainBlockTail ==
    /\ pc = "returned"
    /\ \E now \in WallClock :
        LET modified_time == get_current_time_formatted(now)
        IN  timeFile' = timeFile
    /\ pc' = "idle"
    /\ FreshFrame
    /\ restarts' = 0
    /\ trace' = <<>>
    /\ outcome' = "none"
    /\ runAbsent' = FALSE
    /\ handled' = ZeroHandled
    /\ listed' = {}
    /\ UNCHANGED <<uploaded, failed, unsupported, localFiles>>
    /\ UNCHANGED <<helperVars, accepted>>

Next ==
    \/ RunProgram
    \/ ResolveCheckpoint
    \/ ListFiles
    \/ LoopExit
    \/ BeginIteration
    \/ FetchMetadata
    \/ Download
    \/ Upload
    \/ Trigger
    \/ MainBlockTail

Spec == Init /\ [][Next]_vars

-----------------------------------------------------------------------------
(* main.py, the same run with a record kept, across runs, of the ids for which
   the upload call handed a file uid to the program *)

\* lines 108-118, as Upload; past line 113 the catalog has accepted the file
UploadRecorded ==
    /\ pc = "upload"
    /\ \E resp \in Responses(UploadBodies) :
        LET uploaded_file == call_catalog_api(resp)
            uid == IF uploaded_file = Raised THEN Raise
                   ELSE FileUidOf(uploaded_file)
            tr == Append(trace, "upload")
            evs == runEvents \cup {"upload"}
            sn == [seen EXCEPT !.up = resp]
        IN  IF uid = Raise
            THEN ExceptHandler(localFiles, tr, evs, sn)
            ELSE /\ seen' = sn
                 /\ IF Falsy(uid)
                    THEN /\ failed' = append_file_id(items[idx], failed)
                         /\ localFiles' = os_remove(localFiles, local_file_name)
                         /\ trace' = tr \o <<"append_failed", "remove">>
                         /\ outcome' = "Failed-Upload"
                         /\ idx' = idx + 1
                         /\ pc' = "loop"
                         /\ DeadLocals
                         /\ accepted' = accepted
                    ELSE /\ failed' = failed
                         /\ localFiles' = localFiles
                         /\ trace' = tr
                         /\ outcome' = "pending"
                         /\ idx' = idx
                         /\ pc' = "trigger"
                         /\ file_uid' = uid
                         /\ UNCHANGED <<request, file_type>>
                         /\ accepted' = accepted \cup {items[idx]}
                 /\ runEvents' = evs
                 /\ UNCHANGED <<timeFile, uploaded, unsupported,
                                query_modified_time, items, file_name,
                                local_file_name, restarts, ledger0,
                                allUploaded, runAbsent, handled, listed>>
                 /\ UNCHANGED helperVars

NextRecorded ==
    \/ RunProgram
    \/ ResolveCheckpoint
    \/ ListFiles
    \/ LoopExit
    \/ BeginIteration
    \/ FetchMetadata
    \/ Download
    \/ UploadRecorded
    \/ Trigger
    \/ MainBlockTail

SpecRecorded == Init /\ [][NextRecorded]_vars

-----------------------------------------------------------------------------
(* script.py: the single-file entry point. Its main() (lines 207-326) and its
   helpers are those of main.py and helpers.py word for word, but for the
   names of the path and URL variables and for call_catalog_api; its run is
   the run above with the two catalog calls going through its own
   call_catalog_api *)

\* script.py lines 292-302: encode, call the upload endpoint, take the file uid
script_Upload ==
    /\ pc = "upload"
    /\ \E resp \in Responses(UploadBodies) :
        LET uploaded_file == script_call_catalog_api(resp)
            uid == IF uploaded_file = Raised THEN Raise
                   ELSE FileUidOf(uploaded_file)
            tr == Append(trace, "upload")
            evs == runEvents \cup {"upload"}
            sn == [seen EXCEPT !.up = resp]
        IN  IF uid = Raise
            THEN ExceptHandler(localFiles, tr, evs, sn)
            ELSE /\ seen' = sn
                 /\ IF Falsy(uid)
                    THEN /\ failed' = append_file_id(items[idx], failed)
                         /\ localFiles' = os_remove(localFiles, local_file_name)
                         /\ trace' = tr \o <<"append_failed", "remove">>
                         /\ outcome' = "Failed-Upload"
                         /\ idx' = idx + 1
                         /\ pc' = "loop"
                         /\ DeadLocals
                    ELSE /\ failed' = failed
                         /\ localFiles' = localFiles
                         /\ trace' = tr
                         /\ outcome' = "pending"
                         /\ idx' = idx
                         /\ pc' = "trigger"
                         /\ file_uid' = uid
                         /\ UNCHANGED <<request, file_type>>
                 /\ runEvents' = evs
                 /\ UNCHANGED <<timeFile, uploaded, unsupported,
                                query_modified_time, items, file_name,
                                local_file_name, restarts, ledger0,
                                allUploaded, runAbsent, handled, listed>>
                 /\ UNCHANGED <<helperVars, accepted>>

\* script.py lines 304-314: call the processing endpoint, take the process
\* status, record the result
script_Trigger ==
    /\ pc = "trigger"
    /\ \E resp \in Responses(ProcessBodies) :
        LET process_data == script_call_catalog_api(resp)
            process_status == IF process_data = Raised THEN Raise
                              ELSE ProcessStatusOf(process_data)
            tr == Append(trace, "trigger")
            evs == runEvents \cup {"trigger"}
            sn == [seen EXCEPT !.tr = resp, !.sent = file_uid]
        IN  IF process_status = Raise
            THEN ExceptHandler(localFiles, tr, evs, sn)
            ELSE /\ seen' = sn
                 /\ IF Falsy(process_status)
                    THEN /\ failed' = append_file_id(items[idx], failed)
                         /\ uploaded' = uploaded
                         /\ trace' = tr \o <<"append_failed", "remove">>
                         /\ outcome' = "Failed-Processing"
                    ELSE /\ failed' = failed
                         /\ uploaded' = append_file_id(items[idx], uploaded)
                         /\ trace' = tr \o <<"remove", "append_uploaded">>
                         /\ outcome' = "Uploaded"
                 /\ localFiles' = os_remove(localFiles, local_file_name)
                 /\ idx' = idx + 1
                 /\ pc' = "loop"
                 /\ runEvents' = evs
                 /\ DeadLocals
                 /\ UNCHANGED <<timeFile, unsupported, query_modified_time,
                                items, file_name, local_file_name, restarts,
                                ledger0, allUploaded, runAbsent, handled,
                                listed>>
                 /\ UNCHANGED <<helperVars, accepted>>

NextScript ==
    \/ RunProgram
    \/ ResolveCheckpoint
    \/ ListFiles
    \/ LoopExit
    \/ BeginIteration
    \/ FetchMetadata
    \/ Download
    \/ script_Upload
    \/ script_Trigger
    \/ MainBlockTail

SpecScript == Init /\ [][NextScript]_vars

-----------------------------------------------------------------------------
(* helpers.py: append_file_id and get_file_type called on their own *)

HelperIds == {"f1", "f2", "f3"}

\* arguments of get_file_type: the keys of its table and MIME types outside it
HelperMimes ==
    DOMAIN mime_type_to_file_type
        \cup {"application/zip", "application/json", "image/gif", "text/csv",
              "APPLICATION/PDF", "application/pdf; charset=binary", "",
              FOLDER, GDOC, GSHEET}

InitHelpers ==
    /\ pc = "idle"
    /\ timeFile = Absent
    /\ uploaded = <<>>
    /\ failed = <<>>
    /\ unsupported = <<>>
    /\ localFiles = {}
    /\ query_modified_time = Unbound
    /\ items = <<>>
    /\ idx = 1
    /\ file_name = Unbound
    /\ local_file_name = NoLocal
    /\ request = Unbound
    /\ file_type = Unbound
    /\ file_uid = Unbound
    /\ restarts = 0
    /\ trace = <<>>
    /\ outcome = "none"
    /\ runEvents = {}
    /\ ledger0 = Ledgers
    /\ allUploaded = FALSE
    /\ runAbsent = FALSE
    /\ handled = ZeroHandled
    /\ listed = {}
    /\ seen = NoSeen
    /\ accepted = {}
    /\ hLedger \in DistinctSeqs(HelperIds, Cardinality(HelperIds))
    /\ hInit = hLedger
    /\ hLog = <<>>
    /\ hMime \in HelperMimes
    /\ hType = Unbound

\* append_file_id(file_id, path) on one ledger file
AppendCall ==
    /\ Len(hLog) < MaxCalls
    /\ \E file_id \in HelperIds :
        /\ hLedger' = append_file_id(file_id, hLedger)
        /\ hLog' = Append(hLog, file_id)
    /\ UNCHANGED <<hInit, hMime, hType>>
    /\ UNCHANGED progVars

\* get_file_type(mime_type)
ClassifyCall ==
    /\ \E mime_type \in HelperMimes :
        /\ hMime' = mime_type
        /\ hType' = get_file_type(mime_type)
    /\ UNCHANGED <<hLedger, hInit, hLog>>
    /\ UNCHANGED progVars

NextHelpers ==
    \/ AppendCall
    \/ ClassifyCall

SpecHelpers == InitHelpers /\ [][NextHelpers]_vars

-----------------------------------------------------------------------------
(* Properties *)

InLoop == pc \in {"loop", "meta", "download", "upload", "trigger"}

PastCheckpoint == InLoop \/ pc \in {"list", "returned"}

\* an iteration has run to its end and the next one has not begun
IterationEnded == pc \in {"loop", "returned"} /\ seen.id # None

CatalogCalls == {"meta", "download", "upload", "trigger"}

\* C1: when every listed id was in Uploaded as main() was entered, the run
\* makes no metadata fetch, no download, no upload and no processing trigger,
\* and the three ledgers stay as they were.
C1_IdempotentRun ==
    (allUploaded /\ (InLoop \/ pc = "returned")) =>
        /\ runEvents \cap CatalogCalls = {}
        /\ Ledgers = ledger0

C1_Witness ==
    /\ pc = "returned"
    /\ allUploaded
    /\ Len(items) >= 2
    /\ outcome = "Skipped-Already-Uploaded"
    /\ handled = [i \in Ids |-> 1]

\* C2: once the listing has succeeded, no exception raised while a descriptor
\* is handled restarts the run: no step taken inside the per-file loop
\* re-enters main().
C2_PerFileErrorNeverRestarts == [][InLoop => pc' # "main"]_vars

\* C3: the local transient file of a descriptor does not exist once its
\* iteration is over, however it ended: a local file exists only between the
\* download and the end of the same iteration.
C3_TransientCleanup == pc \notin {"upload", "trigger"} => localFiles = {}

C3_Witness ==
    /\ pc = "loop"
    /\ outcome = "Failed-Exception"
    /\ seen.up = NoReply
    /\ "create" \in Range(trace)
    /\ trace[Len(trace)] = "remove"
    /\ localFiles = {}

\* C4: when the upload call returns a response without a resolvable file uid,
\* the id is appended to Failed, the local file is removed, the processing
\* trigger is not invoked and the id is not appended to Uploaded.
C4_UploadFailureRecorded ==
    (/\ IterationEnded
     /\ seen.up.status = "ok"
     /\ seen.up.body.kind \notin {"uid", "not_json"}) =>
        /\ seen.id \in Range(failed)
        /\ localFiles = {}
        /\ "trigger" \notin Range(trace)
        /\ uploaded = seen.ledgers[1]

\* C5 as claimed: when the checkpoint is absent as a run starts, a checkpoint
\* read after the run still returns absent.
C5_CheckpointLeftAbsent ==
    (pc = "returned" /\ runAbsent) => timeFile = Absent

\* C5 as amended: when the checkpoint is absent as a run starts, the run takes
\* the current time as its effective checkpoint and persists it, so that from
\* then on, and after the run, a checkpoint read returns that time.
C5_CheckpointCreated ==
    (runAbsent /\ PastCheckpoint) =>
        /\ timeFile \in Times
        /\ query_modified_time = timeFile

C5_Witness ==
    /\ pc = "returned"
    /\ runAbsent
    /\ restarts = 0
    /\ timeFile = "t2"

\* C6: in one run, re-invocations included, every listed descriptor is
\* handled exactly once.
C6_HandledExactlyOnce ==
    pc = "returned" => \A id \in listed : handled[id] = 1

\* C7: a descriptor whose MIME type is the folder type ends as Skipped-Folder
\* straight after the metadata call: no download or export, no upload, no
\* processing trigger, no local file, no ledger changed.
C7_FolderShortCircuit ==
    seen.mime = FOLDER =>
        /\ pc \in {"loop", "returned"}
        /\ outcome = "Skipped-Folder"
        /\ trace = <<"meta">>
        /\ localFiles = {}
        /\ Ledgers = seen.ledgers

C7_Witness ==
    /\ pc = "loop"
    /\ seen.mime = FOLDER
    /\ outcome = "Skipped-Folder"
    /\ local_file_name = [name |-> "report", suffix |-> ".pdf"]

\* the iteration ended by appending the id to Unsupported and by nothing else
UnsupportedRouted ==
    /\ outcome = "Skipped-Unsupported-Type"
    /\ seen.id \in Range(unsupported)
    /\ unsupported = IF seen.id \in Range(seen.ledgers[3])
                     THEN seen.ledgers[3]
                     ELSE Append(seen.ledgers[3], seen.id)
    /\ uploaded = seen.ledgers[1]
    /\ failed = seen.ledgers[2]
    /\ localFiles = {}
    /\ trace = <<"meta", "append_unsupported">>

\* C8 as claimed: a descriptor that is not already uploaded and whose MIME
\* type the classifier maps to unsupported is appended to Unsupported, with no
\* local file, download, upload or trigger, Failed and Uploaded unchanged.
C8_UnsupportedByOwnMime ==
    (/\ IterationEnded
     /\ seen.mime # None
     /\ seen.mime \notin DOMAIN mime_type_to_file_type) => UnsupportedRouted

\* C8 as amended: the same for a descriptor that is not already uploaded,
\* whose MIME type does not have the editor prefix (folders included) and
\* is mapped to unsupported by the classifier.
C8_UnsupportedRouting ==
    (/\ seen.mime # None
     /\ ~StartsWithGoogleApps(seen.mime)
     /\ seen.mime \notin DOMAIN mime_type_to_file_type) =>
        /\ pc \in {"loop", "returned"}
        /\ UnsupportedRouted

C8_Witness ==
    /\ pc = "loop"
    /\ seen.mime = "application/zip"
    /\ outcome = "Skipped-Unsupported-Type"
    /\ seen.ledgers[3] = <<>>
    /\ unsupported = <<seen.id>>

\* the position at which x first occurs in s
FirstIndex(s, x) ==
    CHOOSE i \in DOMAIN s : s[i] = x /\ \A j \in 1..(i - 1) : s[j] # x

\* C9: from a duplicate-free ledger, after any calls of append_file_id the
\* stored sequence holds each id at most once, holds exactly the ids stored or
\* appended, in the order of their first insertion (the ids stored at first
\* come first and in place), so that appending an id already present changes
\* nothing.
C9_AppendDuplicateFree ==
    LET all == hInit \o hLog
    IN  /\ NoDup(hLedger)
        /\ Range(hLedger) = Range(all)
        /\ SubSeq(hLedger, 1, Len(hInit)) = hInit
        /\ \A i, j \in DOMAIN hLedger :
               i < j => FirstIndex(all, hLedger[i]) < FirstIndex(all, hLedger[j])
        /\ (hLog # <<>> /\ hLog[Len(hLog)] \in
                Range(hInit \o SubSeq(hLog, 1, Len(hLog) - 1))) =>
               Len(hLedger) = Cardinality(
                   Range(hInit \o SubSeq(hLog, 1, Len(hLog) - 1)))

C9_Witness ==
    /\ Len(hInit) = 1
    /\ Len(hLog) = 3
    /\ hLog[1] \notin Range(hInit)
    /\ hLog[2] = hInit[1]
    /\ hLog[3] = hLog[1]
    /\ hLedger = <<hInit[1], hLog[1]>>

\* C10: get_file_type returns the unsupported marker for every MIME type that
\* is no key of its table and the catalog type tag of each enumerated entry.
C10_ClassifierTotality ==
    hType # Unbound =>
        /\ hMime = "application/pdf" => hType = "FILE_TYPE_PDF"
        /\ hMime = "text/plain" => hType = "FILE_TYPE_TEXT"
        /\ hMime = "text/markdown" => hType = "FILE_TYPE_MARKDOWN"
        /\ hMime = "image/png" => hType = "FILE_TYPE_PNG"
        /\ hMime = "image/jpeg" => hType = "FILE_TYPE_JPEG"
        /\ hMime = "text/html" => hType = "FILE_TYPE_HTML"
        /\ hMime = "application/vnd.openxmlformats-officedocument.wordprocessingml.document"
               => hType = "FILE_TYPE_DOCX"
        /\ hMime = "application/msword" => hType = "FILE_TYPE_DOC"
        /\ hMime = "application/vnd.ms-powerpoint" => hType = "FILE_TYPE_PPT"
        /\ hMime = "application/vnd.openxmlformats-officedocument.presentationml.presentation"
               => hType = "FILE_TYPE_PPTX"
        /\ hMime = "application/vnd.ms-excel" => hType = "FILE_TYPE_XLS"
        /\ hMime = "application/vnd.openxmlformats-officedocument.spreadsheetml.sheet"
               => hType = "FILE_TYPE_XLSX"
        /\ hMime \in {"application/zip", "application/json", "image/gif",
                      "text/csv", "APPLICATION/PDF",
                      "application/pdf; charset=binary", "",
                      FOLDER, GDOC, GSHEET} => hType = "none"
        /\ hType = "none" => hMime \notin DOMAIN mime_type_to_file_type

C10_Witness ==
    /\ hMime = "application/zip"
    /\ hType = "none"

\* a step of the listing phase (service build, checkpoint, listing) either
\* goes on with the attempt or, when it raises, re-enters main() from its
\* start: a fresh frame in which the checkpoint is read again and the listing
\* issued again. There is no other way out of the phase and a failed attempt
\* leaves the three ledgers as they were
ListingPhaseStep ==
    pc \in {"main", "list"} =>
        \/ /\ pc = "main"
           /\ pc' = "list"
           /\ restarts' = restarts
           /\ query_modified_time' = timeFile'
           /\ Ledgers' = Ledgers
        \/ /\ pc = "list"
           /\ pc' \in {"loop", "returned"}
           /\ restarts' = restarts
           /\ Ledgers' = Ledgers
        \/ /\ pc' = "main"
           /\ restarts' = restarts + 1
           /\ query_modified_time' = Unbound
           /\ items' = <<>>
           /\ timeFile' = timeFile
           /\ Ledgers' = Ledgers

UploadFailed ==
    /\ seen.up # NoReply
    /\ ~(/\ seen.up.status = "ok"
         /\ seen.up.body.kind = "uid"
         /\ seen.up.body.val # "")

\* the trigger of the iteration was called and did not yield a process status
TriggerFailed ==
    /\ seen.tr # NoReply
    /\ ~(/\ seen.tr.status = "ok"
         /\ seen.tr.body.kind = "status"
         /\ seen.tr.body.val # "")

\* C12: when an iteration ends because the upload or the processing trigger
\* failed (the reply lacks the expected field, or the call itself fails), the
\* id of its descriptor is in Failed once the iteration is over and the loop
\* goes on with the next descriptor.
C12_FailedSetComplete ==
    (IterationEnded /\ (UploadFailed \/ TriggerFailed)) =>
        seen.id \in Range(failed)

\* the iteration reached the download and ended without calling the upload:
\* creating the local file or streaming the content into it raised
FetchRaised ==
    /\ IterationEnded
    /\ {"create", "create_raises"} \cap Range(trace) # {}
    /\ seen.up = NoReply

\* C13: when the download or export of a descriptor raises, the outcome is
\* Failed-Exception, no local file is left, Uploaded, Failed and Unsupported
\* are as they were when the iteration began, and the loop stands at the next
\* descriptor of the same listing.
C13_FetchExceptionNoLedger ==
    FetchRaised =>
        /\ outcome = "Failed-Exception"
        /\ localFiles = {}
        /\ Ledgers = seen.ledgers
        /\ idx >= 2
        /\ items[idx - 1] = seen.id

C13_Witness ==
    /\ pc = "loop"
    /\ restarts = 0
    /\ Len(items) = 2
    /\ idx = 2
    /\ trace = <<"meta", "create", "export_media", "remove">>
    /\ outcome = "Failed-Exception"
    /\ seen.id = items[1]
    /\ Ledgers = <<<<>>, <<>>, <<>>>>

\* the step appends id to Uploaded
AppendsUploaded(id) == id \in Range(uploaded') \ Range(uploaded)

\* the step is the end of an iteration on id in which the upload had returned
\* the non-empty file uid u, the trigger is called with u and returns a
\* non-empty process status
FullSuccess(id, u) ==
    /\ pc = "trigger"
    /\ items[idx] = id
    /\ seen.id = id
    /\ seen.up.status = "ok"
    /\ seen.up.body = Body("uid", u)
    /\ file_uid = u
    /\ seen'.sent = u
    /\ seen'.tr.status = "ok"
    /\ seen'.tr.body.kind = "status"
    /\ seen'.tr.body.val # ""
    /\ outcome' = "Uploaded"

UploadedSoundStep ==
    \/ uploaded' = uploaded
    \/ /\ \A id \in Ids :
              AppendsUploaded(id) => \E u \in Uids : FullSuccess(id, u)
       /\ outcome' = "Uploaded"
       /\ Range(uploaded) \subseteq Range(uploaded')
       /\ Range(uploaded') \subseteq Ids

\* C14: Uploaded being empty at first, an id enters Uploaded only at the end
\* of an iteration on that id in which the upload returned a file uid and the
\* trigger called with that uid returned a non-empty process status; no step
\* that ends in a skip or a failure changes Uploaded.
C14_UploadedSound == [][UploadedSoundStep]_vars

C14_Witness ==
    /\ pc = "loop"
    /\ outcome = "Uploaded"
    /\ seen.id \in Range(uploaded)
    /\ seen.up.body = Body("uid", "u2")
    /\ seen.sent = "u2"
    /\ seen.tr.body = Body("status", "FILE_PROCESS_STATUS_WAITING")
    /\ Len(uploaded) = 2
    /\ failed # <<>>

\* C15: in an iteration that appends the id to Uploaded or to Failed, the
\* local file is not removed before the append, and when the iteration is
\* over the local file is gone whatever the outcome.
C15_LedgerBeforeCleanup ==
    /\ \A i, j \in DOMAIN trace :
           (/\ trace[i] = "remove"
            /\ trace[j] \in {"append_uploaded", "append_failed"}) => j < i
    /\ IterationEnded => localFiles = {}

InIteration == pc \in {"meta", "download", "upload", "trigger"}

\* the place of a step in the pipeline: metadata, fetch, upload, trigger,
\* ledger record (the removal of the local file is cleanup, not a stage)
StepRank(s) ==
    CASE s = "meta" -> 0
      [] s \in {"create", "create_raises"} -> 1
      [] s \in {"export_media", "get_media"} -> 2
      [] s = "upload" -> 3
      [] s = "trigger" -> 4
      [] s \in {"append_uploaded", "append_failed", "append_unsupported"} -> 5
      [] OTHER -> 6

\* the steps of the current iteration are in pipeline order, all on the
\* descriptor at the loop index; the upload starts with the fetched file in
\* place and the trigger carries the uid of this iteration's upload reply
PipelineOrder ==
    /\ \A i, j \in DOMAIN trace :
           (i < j /\ StepRank(trace[i]) < 6 /\ StepRank(trace[j]) < 6) =>
               StepRank(trace[i]) < StepRank(trace[j])
    /\ InIteration => (idx \in DOMAIN items /\ seen.id = items[idx])
    /\ pc \in {"upload", "trigger"} =>
           (local_file_name \in localFiles /\ request \in Range(trace))
    /\ pc = "trigger" =>
           (seen.up.body.kind = "uid" /\ file_uid = seen.up.body.val)
    /\ seen.sent # None => seen.sent = seen.up.body.val

\* an iteration moves from stage to stage on one descriptor and ends at the
\* next index (or the run is restarted); the loop takes the descriptors one
\* after another in the order of the listing
SequentialStep ==
    /\ InIteration =>
           \/ pc' = "main"
           \/ /\ items' = items
              /\ seen'.id = seen.id
              /\ \/ /\ idx' = idx
                    /\ <<pc, pc'>> \in {<<"meta", "download">>,
                                        <<"download", "upload">>,
                                        <<"upload", "trigger">>}
                 \/ /\ idx' = idx + 1
                    /\ pc' = "loop"
    /\ (pc = "loop" /\ pc' \in {"loop", "meta"}) =>
           /\ items' = items
           /\ seen'.id = items[idx]
           /\ idx' = IF pc' = "meta" THEN idx ELSE idx + 1

\* C16: the descriptors are handled one at a time in the order of the
\* listing; for each the steps come in the order fetch, upload, trigger,
\* ledger record; the upload is called only once the fetch is done, the
\* trigger only with the uid that this descriptor's upload returned, and no
\* step of another descriptor comes in between.
C16_SequentialPipeline == []PipelineOrder /\ [][SequentialStep]_vars

C16_Witness ==
    /\ pc = "loop"
    /\ restarts = 0
    /\ idx = 3
    /\ uploaded = items
    /\ seen.id = items[2]
    /\ seen.sent = "u2"
    /\ trace = <<"meta", "create", "get_media", "upload", "trigger",
                 "remove", "append_uploaded">>

\* C17 as claimed: every id is in at most one of Uploaded, Failed and
\* Unsupported.
C17_LedgersDisjoint ==
    /\ Range(uploaded) \cap Range(failed) = {}
    /\ Range(uploaded) \cap Range(unsupported) = {}
    /\ Range(failed) \cap Range(unsupported) = {}

\* the ids that the step adds to a ledger
Gained(old, new) == Range(new) \ Range(old)

ExclusiveAppendStep ==
    \/ Ledgers' = Ledgers
    \/ LET gu == Gained(uploaded, uploaded')
           gf == Gained(failed, failed')
           gn == Gained(unsupported, unsupported')
       IN  /\ gu \cap gf = {}
           /\ gu \cap gn = {}
           /\ gf \cap gn = {}
           /\ (gu \cup gf \cup gn) \cap Range(uploaded) = {}
           /\ Range(uploaded) \subseteq Range(uploaded')
           /\ Range(failed) \subseteq Range(failed')
           /\ Range(unsupported) \subseteq Range(unsupported')

\* C17 as amended: a step appends an id to at most one of the three ledgers,
\* an id that is in Uploaded is appended to no ledger again, and no id ever
\* leaves a ledger (so an id recorded in Failed or Unsupported that a later
\* run handles again may come to be in two ledgers).
C17_ExclusiveAppend == [][ExclusiveAppendStep]_vars

C17_Witness ==
    /\ pc = "loop"
    /\ outcome = "Uploaded"
    /\ seen.id \in Range(seen.ledgers[2])
    /\ seen.id \in Range(uploaded) \cap Range(failed)

\* a persisted checkpoint is left alone by every step; inside the per-file
\* loop neither the file nor the value read from it changes, except that a
\* restart drops the value with its frame
CheckpointStableStep ==
    /\ timeFile \in Times => timeFile' = timeFile
    /\ InLoop =>
           /\ timeFile' = timeFile
           /\ \/ query_modified_time' = query_modified_time
              \/ pc' = "main" /\ query_modified_time' = Unbound

NonFolderSeen == seen.mime # None /\ ~IsFolder(seen.mime)

Fetching == pc \in {"download", "upload", "trigger"}

\* C19: a non-folder descriptor with the editor prefix is fetched by
\* export_media, its local file is named name + ".pdf", it is classified as
\* PDF and never ends in Unsupported; any other non-folder descriptor keeps
\* its name for the local file, is classified by get_file_type of its own
\* MIME type (Unsupported when that is "none") and is fetched, when it is,
\* by get_media.
C19_EditorExport ==
    NonFolderSeen =>
        IF StartsWithGoogleApps(seen.mime)
        THEN /\ local_file_name = [name |-> file_name, suffix |-> ".pdf"]
             /\ "get_media" \notin Range(trace)
             /\ "append_unsupported" \notin Range(trace)
             /\ outcome # "Skipped-Unsupported-Type"
             /\ unsupported = seen.ledgers[3]
             /\ pc \in {"loop", "returned"} \/ Fetching
             /\ Fetching =>
                    /\ request = "export_media"
                    /\ file_type = "FILE_TYPE_PDF"
                    /\ pc # "download" => "export_media" \in Range(trace)
        ELSE /\ local_file_name = [name |-> file_name, suffix |-> ""]
             /\ "export_media" \notin Range(trace)
             /\ get_file_type(seen.mime) = "none" =>
                    /\ ~Fetching
                    /\ outcome = "Skipped-Unsupported-Type"
                    /\ "get_media" \notin Range(trace)
             /\ Fetching =>
                    /\ request = "get_media"
                    /\ file_type = get_file_type(seen.mime)
                    /\ file_type # "none"
                    /\ pc # "download" => "get_media" \in Range(trace)

C19_Witness ==
    /\ pc = "upload"
    /\ seen.mime = GDOC
    /\ file_name = "report"
    /\ local_file_name = [name |-> "report", suffix |-> ".pdf"]
    /\ localFiles = {local_file_name}
    /\ request = "export_media"
    /\ file_type = "FILE_TYPE_PDF"
    /\ trace = <<"meta", "create", "export_media">>

\* a plain-text descriptor fetched directly under its own name and type
C19_WitnessDirect ==
    /\ pc = "upload"
    /\ seen.mime = "text/plain"
    /\ local_file_name = [name |-> "report", suffix |-> ""]
    /\ request = "get_media"
    /\ file_type = "FILE_TYPE_TEXT"

\* C20: on the same checkpoint, ledgers, listing and collaborator replies
\* (replies with an HTTP error status included) script.py does what main.py
\* does: every step of a run of script.py is the step main.py takes on the
\* same reply, with the same calls recorded and the same ledger appends.
C20_ScriptStepsAreMainSteps == [][Next]_vars

\* the step is an upload call that hands the program a file uid for id
UploadAcceptedStep(id) ==
    /\ pc = "upload"
    /\ pc' = "trigger"
    /\ items[idx] = id
    /\ file_uid' \in Uids

AcceptedOnceStep ==
    \A id \in Ids : UploadAcceptedStep(id) => id \notin accepted

\* C21: over any sequence of runs the catalog accepts an upload (returns a
\* file uid) for one remote file id at most once: no upload is accepted for
\* an id for which one was accepted before, be it that its processing
\* trigger failed and the id went to Failed.
C21_AcceptedAtMostOnce == [][AcceptedOnceStep]_vars

\* the ledger is as it was, or it is the old one with one id that it did
\* not hold added at its end
GrownByOne(old, new) ==
    \/ new = old
    \/ \E id \in Ids \ Range(old) : new = Append(old, id)

LedgersGrowStep ==
    \/ Ledgers' = Ledgers
    \/ /\ GrownByOne(uploaded, uploaded')
       /\ GrownByOne(failed, failed')
       /\ GrownByOne(unsupported, unsupported')

\* C22: over any sequence of runs, retries and outcomes, every step leaves
\* each of Uploaded, Failed and Unsupported as it was or appends one id at
\* its end: no id is ever removed from a ledger and the ids stored keep
\* their order.
C22_LedgersOnlyGrow == [][LedgersGrowStep]_vars

C22_Witness ==
    /\ pc = "loop"
    /\ outcome = "Failed-Upload"
    /\ seen.id = "f1"
    /\ seen.ledgers = <<<<"f2">>, <<"f2">>, <<"f1">>>>
    /\ Ledgers = <<<<"f2">>, <<"f2", "f1">>, <<"f1">>>>

====
